---- MODULE Spec2Model ----
(***************************************************************************)
(* Model of torch-nansy: the paired-speaker dataset (utils/dataset.py:     *)
(* PairedDataset) and the Yingram feature extractor (nansy/yingram.py).    *)
(***************************************************************************)
EXTENDS Integers, Sequences, FiniteSets, TLC

(***************************************************************************)
(* Bounds of the model.                                                    *)
(***************************************************************************)
\* number of records the reader enumerates
MaxRecords == 3
\* number of dataset views alive (self plus the residuals split() returned)
MaxViews == 2
\* number of states of the modelled bit generator
RngStates == 3
\* speaker ids the transcript can give
Speakers == {1, 2}
\* explicit seeds passed to random_pairing
Seeds == {0, 1}

VARIABLES
    views,      \* every PairedDataset object alive: [groups, pairs]
    memo,       \* per view and seed: the pairs the last random_pairing(seed)
                \* produced on the view's present groups (<<>> when none)
    lastSplit,  \* the split() call that has just returned (<<>> when the
                \* last call was none)
    reproduced, \* a same-seed call was repeated after the pairs had changed
    bunch,      \* the argument of the last collate call
    batch,      \* what that call returned or raised (<<>> before any call)
    yingram,    \* the Yingram module's fields (<<>> before __init__)
    audio,      \* the waveform of the last forward call
    yin         \* what forward computed and how it ended (<<>> before any call)

dvars == <<views, memo, lastSplit, reproduced>>
cvars == <<bunch, batch>>
yvars == <<yingram, audio, yin>>
vars == <<dvars, cvars, yvars>>

(***************************************************************************)
(* Python helpers.                                                         *)
(***************************************************************************)
Min(a, b) == IF a < b THEN a ELSE b
Max(a, b) == IF a > b THEN a ELSE b

\* a slice bound normalised against a length, as list/tensor slicing does
SliceIndex(i, n) == IF i < 0 THEN Max(n + i, 0) ELSE Min(i, n)

\* seq[start:stop]
SliceRange(seq, start, stop) ==
    LET a == SliceIndex(start, Len(seq))
        b == SliceIndex(stop, Len(seq))
    IN  IF b <= a THEN <<>> ELSE [k \in 1..(b - a) |-> seq[a + k]]

\* seq[start:]
SliceFrom(seq, start) ==
    LET a == SliceIndex(start, Len(seq))
    IN  [k \in 1..(Len(seq) - a) |-> seq[a + k]]

\* seq[:stop]
SliceTo(seq, stop) ==
    LET b == SliceIndex(stop, Len(seq))
    IN  [k \in 1..b |-> seq[k]]

Range(seq) == {seq[k] : k \in 1..Len(seq)}

\* a sequence given as a function, as a tuple of its values
Tuple(seq) == <<>> \o seq

(***************************************************************************)
(* numpy.random: default_rng(seed) and Generator.permutation(n).           *)
(* A generator is its state; a seed is <<>> (None) or <<s>>.               *)
(***************************************************************************)
\* default_rng that goes to OS entropy even when a seed is given
default_rngUnseeded(seed, entropy) == (entropy + Len(seed)) % RngStates

\* a fresh generator: from the seed, or from OS entropy when seed is None
default_rng(seed, entropy) ==
    IF seed = <<>> THEN entropy ELSE seed[1] % RngStates

\* one step of the bit generator
Advance(s) == (s + 1) % RngStates

\* swap positions i and j (0-based) of a sequence
Swap(seq, i, j) ==
    [k \in 1..Len(seq) |->
        IF k = i + 1 THEN seq[j + 1] ELSE IF k = j + 1 THEN seq[i + 1] ELSE seq[k]]

\* Fisher-Yates from position i down to 1: <<indices, generator state>>
RECURSIVE Shuffle(_, _, _)
Shuffle(seq, i, s) ==
    IF i < 1 THEN <<seq, s>>
    ELSE Shuffle(Swap(seq, i, s % (i + 1)), i - 1, Advance(s))

\* rng.permutation(n): a permutation of 0..n-1 and the generator afterwards
permutation(s, n) == Shuffle([k \in 1..n |-> k - 1], n - 1, Advance(s))

(***************************************************************************)
(* PairedDataset.random_pairing                                            *)
(***************************************************************************)
\* RepeatOnce with the odd index dropped instead of completed
RepeatOnceDropsOdd(indices) ==
    IF Len(indices) % 2 = 1 THEN SubSeq(indices, 1, Len(indices) - 1) ELSE indices

\* `repeating once`: an odd-length index list gets its first index appended
RepeatOnce(indices) ==
    IF Len(indices) % 2 = 1 THEN Append(indices, indices[1]) ELSE indices

\* the pairs of one speaker: indices.reshape(-1, 2) over paths
GroupPairs(sid, paths, indices) ==
    LET ind == RepeatOnce(indices)
    IN  [k \in 1..(Len(ind) \div 2) |->
            <<sid, paths[ind[2 * k - 1] + 1], paths[ind[2 * k] + 1]>>]

\* the loop over self.groups.items(), threading the generator
RECURSIVE PairLoop(_, _)
PairLoop(groups, s) ==
    IF groups = <<>> THEN <<>>
    ELSE LET sid == Head(groups)[1]
             paths == Head(groups)[2]
             p == permutation(s, Len(paths))
         IN  GroupPairs(sid, paths, p[1]) \o PairLoop(Tail(groups), p[2])

\* self.pairs after random_pairing(seed)
random_pairing(groups, seed, entropy) ==
    PairLoop(groups, default_rng(seed, entropy))

(***************************************************************************)
(* PairedDataset.__init__: group the reader's records by speaker id.       *)
(***************************************************************************)
RECURSIVE GroupBySid(_, _, _)
GroupBySid(dataset, transcript, groups) ==
    IF dataset = <<>> THEN groups
    ELSE LET path == Head(dataset)
             sid == transcript[path]
             at == {k \in 1..Len(groups) : groups[k][1] = sid}
         IN  GroupBySid(Tail(dataset), transcript,
                 IF at = {} THEN Append(groups, <<sid, <<path>>>>)
                 ELSE LET k == CHOOSE k \in at : TRUE
                      IN  [groups EXCEPT ![k] = <<sid, Append(groups[k][2], path)>>])

NoMemo == [s \in Seeds |-> <<>>]

\* what the OS entropy source may hand out at a call
Entropy == 0..(RngStates - 1)

DataInit ==
    \E n \in 0..MaxRecords :
      \E transcript \in [1..n -> Speakers] :
        \E entropy \in Entropy :
          LET groups == GroupBySid([k \in 1..n |-> k], transcript, <<>>)
          IN  /\ views = <<[groups |-> groups,
                            pairs |-> random_pairing(groups, <<>>, entropy)]>>
              /\ memo = <<NoMemo>>
              /\ lastSplit = <<>>
              /\ reproduced = FALSE

(***************************************************************************)
(* PairedDataset.random_pairing as an operation on one view.               *)
(***************************************************************************)
RandomPairing(i, seed, entropy) ==
    LET pairs == random_pairing(views[i].groups, seed, entropy)
    IN  /\ views' = [views EXCEPT ![i].pairs = pairs]
        /\ memo' = IF seed = <<>> THEN memo
                   ELSE [memo EXCEPT ![i][seed[1]] = <<pairs>>]
        /\ reproduced' = (reproduced \/
                            (/\ seed # <<>>
                             /\ memo[i][seed[1]] # <<>>
                             /\ memo[i][seed[1]] # <<views[i].pairs>>))
        /\ lastSplit' = <<>>

(***************************************************************************)
(* PairedDataset.split                                                     *)
(***************************************************************************)
\* ResidualGroups starting one speaker late
ResidualGroupsOffByOne(groups, size) == SliceFrom(groups, size + 1)

\* dict(groups[size:])
ResidualGroups(groups, size) == SliceFrom(groups, size)

\* dict(groups[:size])
SelfGroups(groups, size) == SliceTo(groups, size)

\* SplitResidual without the second pairing: the copy keeps self's pairs
SplitResidualStalePairs(this, size, entropy) ==
    [groups |-> ResidualGroups(this.groups, size), pairs |-> this.pairs]

\* the residual: a deep copy of self, regrouped, then paired again
SplitResidual(this, size, entropy) ==
    LET copy == this
        groups == ResidualGroups(copy.groups, size)
    IN  [groups |-> groups, pairs |-> random_pairing(groups, <<>>, entropy)]

\* self after the call
SplitSelf(this, size, entropy) ==
    LET groups == SelfGroups(this.groups, size)
    IN  [groups |-> groups, pairs |-> random_pairing(groups, <<>>, entropy)]

Split(i, size, e1, e2) ==
    /\ Len(views) < MaxViews
    /\ LET residual == SplitResidual(views[i], size, e1)
           first == SplitSelf(views[i], size, e2)
       IN  /\ views' = Append([views EXCEPT ![i] = first], residual)
           /\ lastSplit' = <<[before |-> views[i].groups, size |-> size,
                              self |-> i, residual |-> Len(views) + 1]>>
    /\ memo' = Append([memo EXCEPT ![i] = NoMemo], NoMemo)
    /\ UNCHANGED reproduced

DataNext ==
    \/ \E i \in 1..Len(views), seed \in {<<>>} \cup {<<s>> : s \in Seeds} :
         \E entropy \in Entropy : RandomPairing(i, seed, entropy)
    \/ \E i \in 1..Len(views) :
         \E size \in 0..(Len(views[i].groups) + 1),
            e1 \in Entropy, e2 \in Entropy :
           Split(i, size, e1, e2)


(***************************************************************************)
(* Properties of PairedDataset.                                            *)
(***************************************************************************)
CeilHalf(n) == (n + 1) \div 2

RECURSIVE PairCount(_)
PairCount(groups) ==
    IF groups = <<>> THEN 0
    ELSE CeilHalf(Len(Head(groups)[2])) + PairCount(Tail(groups))

\* the pairs of the g-th group of a view, by position in view.pairs
Segment(view, g) ==
    LET off == PairCount(SubSeq(view.groups, 1, g - 1))
    IN  SubSeq(view.pairs, off + 1, off + CeilHalf(Len(view.groups[g][2])))

RecordCovered(view, sid, path) ==
    \E k \in 1..Len(view.pairs) :
        /\ view.pairs[k][1] = sid
        /\ path \in {view.pairs[k][2], view.pairs[k][3]}

\* C1: after random_pairing every record of every group occurs in at least
\* one pair of the view, and in a group of odd size the record at the first
\* permuted position closes the group's last pair.
C1_EveryRecordPaired ==
    \A i \in 1..Len(views) :
      \A g \in 1..Len(views[i].groups) :
        LET sid == views[i].groups[g][1]
            paths == views[i].groups[g][2]
            seg == Segment(views[i], g)
        IN  /\ \A k \in 1..Len(paths) : RecordCovered(views[i], sid, paths[k])
            /\ Len(paths) % 2 = 1 =>
                 /\ Len(seg) = CeilHalf(Len(paths))
                 /\ seg[Len(seg)][3] = seg[1][2]

\* C1 witness: a seeded random_pairing has run on a view that holds a group
\* of three records, shuffled out of reading order, whose second pair is
\* closed by the first record of its first pair.
C1_Witness ==
    \E i \in 1..Len(views), s \in Seeds :
        /\ memo[i][s] = <<views[i].pairs>>
        /\ \E g \in 1..Len(views[i].groups) :
              /\ Len(views[i].groups[g][2]) = 3
              /\ Len(Segment(views[i], g)) = 2
              /\ Segment(views[i], g)[1][2] # views[i].groups[g][2][1]
              /\ Segment(views[i], g)[2][3] = Segment(views[i], g)[1][2]

\* C2: random_pairing(seed) with the same seed on the same groups gives the
\* same ordered pairs again, whatever pairing calls ran in between.
C2_SameSeedSamePairs ==
    [][\A i \in 1..Len(views), s \in Seeds :
          (memo[i][s] # <<>> /\ memo'[i][s] # <<>>) => memo'[i][s] = memo[i][s]]_vars

\* C2 witness: a seed was used a second time after another pairing had
\* changed the pairs, and the view holds that seed's pairs again.
C2_Witness ==
    /\ reproduced
    /\ \E i \in 1..Len(views), s \in Seeds :
          /\ memo[i][s] = <<views[i].pairs>>
          /\ Len(views[i].pairs) >= 2

SidsOf(groups) == {groups[k][1] : k \in 1..Len(groups)}
PairSids(view) == {view.pairs[k][1] : k \in 1..Len(view.pairs)}
PairRecords(view) ==
    UNION {{view.pairs[k][2], view.pairs[k][3]} : k \in 1..Len(view.pairs)}

\* C3: split(size) leaves the first `size` speakers in self and the others
\* in the residual; the two are disjoint, together they are the groups
\* before the call, and their pairs share no speaker and no record.
C3_SplitPartitions ==
    lastSplit # <<>> =>
        LET ls == lastSplit[1]
            n == Len(ls.before)
            cut == IF ls.size < n THEN ls.size ELSE n
            first == views[ls.self]
            residual == views[ls.residual]
        IN  /\ first.groups = SubSeq(ls.before, 1, cut)
            /\ residual.groups = SubSeq(ls.before, cut + 1, n)
            /\ SidsOf(first.groups) \cap SidsOf(residual.groups) = {}
            /\ first.groups \o residual.groups = ls.before
            /\ PairSids(first) \cap PairSids(residual) = {}
            /\ PairRecords(first) \cap PairRecords(residual) = {}

\* C3 witness: a split that left speakers, and pairs, on both sides.
C3_Witness ==
    /\ lastSplit # <<>>
    /\ lastSplit[1].size > 0
    /\ lastSplit[1].size < Len(lastSplit[1].before)
    /\ views[lastSplit[1].self].pairs # <<>>
    /\ views[lastSplit[1].residual].pairs # <<>>

\* C10: in every view each pair's speaker is a key of the view's groups, both
\* its records belong to that speaker's group, and the number of pairs is
\* the sum of ceil(group size / 2).
C10_PairsWithinGroups ==
    \A i \in 1..Len(views) :
        /\ \A k \in 1..Len(views[i].pairs) :
              \E g \in 1..Len(views[i].groups) :
                  /\ views[i].groups[g][1] = views[i].pairs[k][1]
                  /\ views[i].pairs[k][2] \in Range(views[i].groups[g][2])
                  /\ views[i].pairs[k][3] \in Range(views[i].groups[g][2])
        /\ Len(views[i].pairs) = PairCount(views[i].groups)

\* C10 witness: a residual with pairs, paired again after the split.
C10_Witness ==
    /\ Len(views) = 2
    /\ lastSplit = <<>>
    /\ views[1].pairs # <<>>
    /\ views[2].pairs # <<>>
    /\ Len(views[1].pairs) + Len(views[2].pairs) >= 2

(***************************************************************************)
(* PairedDataset.collate                                                   *)
(***************************************************************************)
\* speaker ids, waveforms and batch sizes the collate calls are drawn from
Waves == {<<>>, <<1>>, <<-1, 1>>, <<1, 0, -1>>}
MaxBunch == 2
Items == {<<sid, s1, s2>> : sid \in Speakers, s1 \in Waves, s2 \in Waves}
Bunches == UNION {[1..n -> Items] : n \in 0..MaxBunch}

Zeros(n) == [k \in 1..n |-> 0]

\* np_pad with the zeros put in front of the signal
np_padLeft(signal, before, after) == Zeros(after) \o signal \o Zeros(before)

\* np.pad(signal, [before, after]): constant mode, zeros
np_pad(signal, before, after) == Zeros(before) \o signal \o Zeros(after)

RECURSIVE MaxOf(_)
MaxOf(seq) ==
    IF Len(seq) = 1 THEN seq[1] ELSE Max(Head(seq), MaxOf(Tail(seq)))

\* collate(bunch): the batch, or the ValueError of lengths.max on no rows
collate(b) ==
    LET sids == [k \in 1..Len(b) |-> b[k][1]]
        lengths == [k \in 1..Len(b) |-> <<Len(b[k][2]), Len(b[k][3])>>]
    IN  IF b = <<>>
        THEN [status |-> "ValueError", sids |-> <<>>, lengths |-> <<>>,
              speech1 |-> <<>>, speech2 |-> <<>>]
        ELSE LET len1 == MaxOf([k \in 1..Len(b) |-> lengths[k][1]])
                 len2 == MaxOf([k \in 1..Len(b) |-> lengths[k][2]])
             IN  [status |-> "ok", sids |-> sids, lengths |-> lengths,
                  speech1 |-> [k \in 1..Len(b) |->
                                 np_pad(b[k][2], 0, len1 - Len(b[k][2]))],
                  speech2 |-> [k \in 1..Len(b) |->
                                 np_pad(b[k][3], 0, len2 - Len(b[k][3]))]]

\* collate keeps no state: a call is its argument and what comes back
CollateInit == bunch \in Bunches /\ batch = <<>>

Collate ==
    /\ batch = <<>>
    /\ batch' = <<collate(bunch)>>
    /\ UNCHANGED bunch

CollateNext == Collate

\* C7: for a non-empty bunch collate returns the speaker ids in input order,
\* lengths[b] = (len(waveform1_b), len(waveform2_b)), and speech1 / speech2 of
\* the width of the longest first / second waveform, each row holding the
\* record's samples in [0, len) and zeros from len to the width.
RowIsRightPadded(row, signal, width) ==
    /\ Len(row) = width
    /\ \A k \in 1..width :
          row[k] = IF k <= Len(signal) THEN signal[k] ELSE 0

C7_CollateRightPads ==
    (batch # <<>> /\ bunch # <<>>) =>
        LET out == batch[1]
            B == 1..Len(bunch)
            w1 == CHOOSE n \in {Len(bunch[k][2]) : k \in B} :
                      \A k \in B : Len(bunch[k][2]) <= n
            w2 == CHOOSE n \in {Len(bunch[k][3]) : k \in B} :
                      \A k \in B : Len(bunch[k][3]) <= n
        IN  /\ out.status = "ok"
            /\ Len(out.sids) = Len(bunch) /\ Len(out.lengths) = Len(bunch)
            /\ Len(out.speech1) = Len(bunch) /\ Len(out.speech2) = Len(bunch)
            /\ \A k \in B :
                  /\ out.sids[k] = bunch[k][1]
                  /\ out.lengths[k] = <<Len(bunch[k][2]), Len(bunch[k][3])>>
                  /\ RowIsRightPadded(out.speech1[k], bunch[k][2], w1)
                  /\ RowIsRightPadded(out.speech2[k], bunch[k][3], w2)

\* C7 witness: a batch of two records whose first and second waveforms
\* differ in length, so both outputs carry padding.
C7_Witness ==
    /\ batch # <<>> /\ Len(bunch) = 2
    /\ Len(bunch[1][2]) < Len(bunch[2][2])
    /\ Len(bunch[1][3]) > Len(bunch[2][3])
    /\ Len(bunch[2][3]) > 0
    /\ batch[1].speech1[1] # bunch[1][2]
    /\ batch[1].speech2[2] # bunch[2][3]

(***************************************************************************)
(* Yingram: configurations and inputs.                                     *)
(***************************************************************************)
\* hop sizes 1..MaxStrides
MaxStrides == 2
\* waveforms of 1..MaxAudioLen samples
MaxAudioLen == 3
\* window sizes (even: irfft returns `windows` samples for these)
Windows == {2, 4, 20}
\* lag bounds
LagMins == {1, 15, 17}
LagMaxs == {2, 3, 5, 6, 19, 21}
\* sample rates: the default, and one whose lags fall on whole samples
DefaultSr == 16000
SampleRates == {DefaultSr, 3520}
\* sample values in [-1, 1]
Samples == {-1, 0, 1}
Audios == UNION {[1..n -> Samples] : n \in 1..MaxAudioLen}

(***************************************************************************)
(* Tensor helpers: a tensor row is a sequence; an operation that raises    *)
(* gives [ok |-> FALSE].                                                   *)
(***************************************************************************)
Ok(v) == [ok |-> TRUE, v |-> v]
Raised == [ok |-> FALSE, v |-> <<>>]

\* broadcasting of two rows by the last dimension, tolerant of a mismatch:
\* the longer row is cut to the shorter
BroadcastTruncating(x, y) ==
    IF ~x.ok \/ ~y.ok THEN Raised
    ELSE LET n == IF Len(x.v) = 1 THEN Len(y.v)
                  ELSE IF Len(y.v) = 1 THEN Len(x.v)
                  ELSE Min(Len(x.v), Len(y.v))
         IN  Ok(Tuple([k \in 1..n |->
                    <<IF Len(x.v) = 1 THEN x.v[1] ELSE x.v[k],
                      IF Len(y.v) = 1 THEN y.v[1] ELSE y.v[k]>>]))

\* broadcasting of two rows by the last dimension: equal sizes, or one of
\* them 1; anything else raises RuntimeError.  Ok(pairs of operands).
Broadcast(x, y) ==
    IF ~x.ok \/ ~y.ok THEN Raised
    ELSE IF Len(x.v) = Len(y.v)
         THEN Ok(Tuple([k \in 1..Len(x.v) |-> <<x.v[k], y.v[k]>>]))
    ELSE IF Len(x.v) = 1 THEN Ok(Tuple([k \in 1..Len(y.v) |-> <<x.v[1], y.v[k]>>]))
    ELSE IF Len(y.v) = 1 THEN Ok(Tuple([k \in 1..Len(x.v) |-> <<x.v[k], y.v[1]>>]))
    ELSE Raised

Sub(x, y) ==
    LET b == Broadcast(x, y)
    IN  IF b.ok THEN Ok(Tuple([k \in 1..Len(b.v) |-> b.v[k][1] - b.v[k][2]]))
        ELSE Raised

Add(x, y) ==
    LET b == Broadcast(x, y)
    IN  IF b.ok THEN Ok(Tuple([k \in 1..Len(b.v) |-> b.v[k][1] + b.v[k][2]]))
        ELSE Raised

Flip(seq) == Tuple([k \in 1..Len(seq) |-> seq[Len(seq) + 1 - k]])

RECURSIVE Sum(_)
Sum(seq) == IF seq = <<>> THEN 0 ELSE Head(seq) + Sum(Tail(seq))

\* x.cumsum(dim=-1)
RECURSIVE Cumsum(_)
Cumsum(seq) ==
    IF seq = <<>> THEN <<>>
    ELSE LET init == Cumsum(SubSeq(seq, 1, Len(seq) - 1))
         IN  Append(init, (IF init = <<>> THEN 0 ELSE init[Len(init)]) + seq[Len(seq)])

(***************************************************************************)
(* Yingram.forward, step by step.                                          *)
(***************************************************************************)
\* x.unfold(-1, size, step): every window of `size` samples, `step` apart
Unfold(seq, size, step) ==
    Tuple([f \in 1..((Len(seq) - size) \div step + 1) |->
        SubSeq(seq, (f - 1) * step + 1, (f - 1) * step + size)])

\* frames = F.pad(audio, [0, w]).unfold(-1, w, strides)
Frames(a, w, strides) == Unfold(np_pad(a, 0, w), w, strides)

\* corr = irfft(|rfft(frame)|^2): the circular autocorrelation of the frame
Corr(x) ==
    Tuple([k \in 1..Len(x) |->
        Sum(Tuple([j \in 1..Len(x) |-> x[j] * x[((j - 1 + k - 1) % Len(x)) + 1]]))])

\* cumsum = F.pad(frame.square().cumsum(), [1, 0])
CumEnergy(x) == np_pad(Cumsum(Tuple([j \in 1..Len(x) |-> x[j] * x[j]])), 1, 0)

\* the difference function of one frame (or the RuntimeError of a
\* broadcast of unequal sizes)
Diff(x, w, tau_max) ==
    LET cumsum == CumEnergy(x)
        corr == Corr(x)
        a == Ok(Flip(SliceRange(cumsum, w - tau_max, w)))
        b == Ok(Tuple([k \in 1..Len(SliceTo(corr, tau_max)) |-> 2 * corr[k]]))
        c == Ok(<<cumsum[w + 1]>>)
        d == Ok(SliceTo(cumsum, tau_max))
    IN  Sub(Add(Sub(a, b), c), d)

\* a quotient num / (den + eps * 1e-7), kept unevaluated
Quot(num, den, eps) == [num |-> num, den |-> den, eps |-> eps]
One == Quot(1, 1, 0)

\* cumdiff: diff[1:] / (diff[1:].cumsum() + 1e-7) * arange(1, tau_max),
\* then the value 1 padded in front
Cumdiff(diff, tau_max) ==
    LET d1 == SliceFrom(diff, 1)
        cs == Cumsum(d1)
        q == Ok(Tuple([k \in 1..Len(d1) |-> <<d1[k], cs[k]>>]))
        lag == Ok(Tuple([k \in 1..(tau_max - 1) |-> k]))
        b == Broadcast(q, lag)
    IN  IF b.ok
        THEN Ok(<<One>> \o [k \in 1..Len(b.v) |->
                              Quot(b.v[k][1][1] * b.v[k][2], b.v[k][1][2], 1)])
        ELSE Raised

(***************************************************************************)
(* Lag <-> MIDI.  2 ** ((m - 69) / 12) is a power of two times one of the  *)
(* twelve semitone ratios, held here in thousandths; a lag is the quotient *)
(* <<numerator, denominator>>.                                             *)
(***************************************************************************)
A4Hz == 440
A4Midi == 69
SemitonesPerOctave == 12
SemitoneRatio ==
    <<1000, 1059, 1122, 1189, 1260, 1335, 1414, 1498, 1587, 1682, 1782, 1888>>

RECURSIVE Pow2(_)
Pow2(n) == IF n <= 0 THEN 1 ELSE 2 * Pow2(n - 1)

\* m2l(m) = sr / (440 * 2 ** ((m - 69) / 12))
m2l(sr, m) ==
    LET octave == (m - A4Midi) \div SemitonesPerOctave
        ratio == SemitoneRatio[((m - A4Midi) % SemitonesPerOctave) + 1]
    IN  IF octave >= 0
        THEN <<sr * SemitoneRatio[1], A4Hz * ratio * Pow2(octave)>>
        ELSE <<sr * SemitoneRatio[1] * Pow2(-octave), A4Hz * ratio>>

Floor(q) == q[1] \div q[2]
Ceil(q) == IF q[1] % q[2] = 0 THEN q[1] \div q[2] ELSE q[1] \div q[2] + 1

\* the MIDI numbers l2m can give for the lags of the model
MidiNotes == 0..140

\* l2m(l) = 12 * log2(sr / (440 * l)) + 69 is the inverse of m2l, which
\* falls as m grows: l2m(l) <= m exactly when m2l(m) <= l
L2mAtMost(sr, l, m) == m2l(sr, m)[1] <= l * m2l(sr, m)[2]
L2mAtLeast(sr, l, m) == m2l(sr, m)[1] >= l * m2l(sr, m)[2]

\* int(np.ceil(l2m(l)))
CeilL2m(sr, l) ==
    CHOOSE m \in MidiNotes : L2mAtMost(sr, l, m) /\ ~L2mAtMost(sr, l, m - 1)

\* int(l2m(l)), for l2m(l) >= 0
IntL2m(sr, l) ==
    CHOOSE m \in MidiNotes : L2mAtLeast(sr, l, m) /\ ~L2mAtLeast(sr, l, m + 1)

\* mmin = int(np.ceil(l2m(self.lmax)))
MidiMin(sr, lmax) == CeilL2m(sr, lmax)

\* mmax = int(l2m(self.lmin))
MidiMax(sr, lmin) == IntL2m(sr, lmin)

(***************************************************************************)
(* Interpolation on the MIDI grid.                                         *)
(***************************************************************************)
NaN == [nan |-> TRUE, lo |-> One, hi |-> One, w |-> <<0, 1>>]

\* (hi - lo) * (lag - lfloor) / (lceil - lfloor) + lo, kept unevaluated as
\* lo + (hi - lo) * w; with lceil = lfloor it is 0 * 0 / 0 + lo, a NaN
Interp(cumdiff, lag) ==
    LET lfloor == Floor(lag)
        lceil == Ceil(lag)
    IN  IF lceil - lfloor = 0 THEN NaN
        ELSE [nan |-> FALSE, lo |-> cumdiff[lfloor + 1], hi |-> cumdiff[lceil + 1],
              w |-> <<lag[1] - lfloor * lag[2], lag[2] * (lceil - lfloor)>>]

\* what forward leaves behind when it raises `error` part of the way
Failure(error, frames, diff) ==
    [status |-> error, frames |-> frames, diff |-> diff, cumdiff |-> <<>>,
     mmin |-> 0, mmax |-> 0, lags |-> <<>>, out |-> <<>>]

\* Yingram.forward on one waveform of the batch
forward(this, a) ==
    LET w == this.windows
        tau_max == this.lmax
        frames == Frames(a, w, this.strides)
        F == 1..Len(frames)
        diff == Tuple([f \in F |-> Diff(frames[f], w, tau_max)])
    IN  IF \E f \in F : ~diff[f].ok THEN Failure("RuntimeError", frames, <<>>)
        ELSE
        LET diffs == Tuple([f \in F |-> diff[f].v])
            cumdiff == Tuple([f \in F |-> Cumdiff(diffs[f], tau_max)])
        IN  IF \E f \in F : ~cumdiff[f].ok
            THEN Failure("RuntimeError", frames, diffs)
            ELSE
            LET mmin == MidiMin(this.sr, this.lmax)
                mmax == MidiMax(this.sr, this.lmin)
                lags == Tuple([g \in 1..(mmax - mmin + 1) |->
                                 m2l(this.sr, mmin + g - 1)])
                G == 1..Len(lags)
                base == [status |-> "ok", frames |-> frames, diff |-> diffs,
                         cumdiff |-> Tuple([f \in F |-> cumdiff[f].v]),
                         mmin |-> mmin, mmax |-> mmax, lags |-> lags, out |-> <<>>]
            IN  IF \E g \in G : Ceil(lags[g]) >= tau_max \/ Floor(lags[g]) >= tau_max
                THEN [base EXCEPT !.status = "IndexError"]
                ELSE [base EXCEPT !.out =
                        Tuple([f \in F |->
                            Tuple([g \in G |-> Interp(cumdiff[f].v, lags[g])])])]

(***************************************************************************)
(* The Yingram module as a state machine.                                  *)
(***************************************************************************)
YinInit == yingram = <<>> /\ audio = <<>> /\ yin = <<>>

\* Yingram.__init__: the arguments are stored, nothing is checked
Construct(strides, windows, lmin, lmax, sr) ==
    /\ yingram = <<>>
    /\ yingram' = <<[strides |-> strides, windows |-> windows,
                     lmin |-> lmin, lmax |-> lmax, sr |-> sr]>>
    /\ UNCHANGED <<audio, yin>>

\* forward keeps no state between calls: what it returns depends on the
\* fields and the waveform alone, so the first call of a module is explored
Forward(a) ==
    /\ yingram # <<>>
    /\ yin = <<>>
    /\ audio' = a
    /\ yin' = <<forward(yingram[1], a)>>
    /\ UNCHANGED yingram

YinNext ==
    \/ \E strides \in 1..MaxStrides, windows \in Windows, lmin \in LagMins,
          lmax \in LagMaxs, sr \in SampleRates :
         lmin < lmax /\ Construct(strides, windows, lmin, lmax, sr)
    \/ \E a \in Audios : Forward(a)

(***************************************************************************)
(* Specifications: the dataset, collate, and the extractor, each on its    *)
(* own with the rest of the state idle.                                    *)
(***************************************************************************)
CollateIdle == bunch = <<>> /\ batch = <<>>

DataSpecInit == DataInit /\ CollateIdle /\ YinInit
DataSpecNext == DataNext /\ UNCHANGED <<cvars, yvars>>
DataSpec == DataSpecInit /\ [][DataSpecNext]_vars

CollateSpecInit ==
    /\ views = <<>> /\ memo = <<>> /\ lastSplit = <<>> /\ reproduced = FALSE
    /\ CollateInit /\ YinInit
CollateSpecNext == CollateNext /\ UNCHANGED <<dvars, yvars>>
CollateSpec == CollateSpecInit /\ [][CollateSpecNext]_vars

YinSpecInit ==
    /\ views = <<>> /\ memo = <<>> /\ lastSplit = <<>> /\ reproduced = FALSE
    /\ CollateIdle /\ YinInit
YinSpecNext == YinNext /\ UNCHANGED <<dvars, cvars>>
YinSpec == YinSpecInit /\ [][YinSpecNext]_vars

(***************************************************************************)
(* Properties of Yingram.forward.                                          *)
(***************************************************************************)
CeilDiv(a, b) == (a + b - 1) \div b

\* C4: for every waveform length T >= 1 the number of frames forward
\* produces per waveform is ceil(T / strides).
C4_FrameCountIsCeil ==
    (yin # <<>> /\ yin[1].status = "ok") =>
        Len(yin[1].out) = CeilDiv(Len(audio), yingram[1].strides)

IsWholeLag(lag) == lag[1] % lag[2] = 0

\* the value an interpolation record stands for is exactly v
IsExactly(o, v) ==
    /\ ~o.nan
    /\ \/ o.lo = v /\ o.hi = v
       \/ o.lo = v /\ o.w[1] = 0
       \/ o.hi = v /\ o.w[1] = o.w[2]

\* C5: at every MIDI grid point whose lag is a whole number L0 the output is
\* cmnd[L0] exactly, and no NaN is produced.
C5_IntegerLagExact ==
    (yin # <<>> /\ yin[1].status = "ok") =>
        \A f \in 1..Len(yin[1].out) :
          \A g \in 1..Len(yin[1].lags) :
            IsWholeLag(yin[1].lags[g]) =>
                IsExactly(yin[1].out[f][g],
                          yin[1].cumdiff[f][Floor(yin[1].lags[g]) + 1])

TooLongLag == yingram # <<>> /\ yingram[1].lmax > yingram[1].windows

\* C6 as stated: a configuration with lagMax > windowSize is rejected with a
\* ConfigError, at construction or at the first compute, and never returns
\* an output.
C6_RejectedWithConfigError ==
    (TooLongLag /\ yin # <<>>) =>
        (yin[1].status = "ConfigError" /\ yin[1].out = <<>>)

\* C6 as amended: construction accepts a configuration with lagMax >
\* windowSize; the first compute raises a RuntimeError while the difference
\* function is built, before any feature value exists, and returns nothing.
C6_TooLongLagRaisesRuntimeError ==
    (TooLongLag /\ yin # <<>>) =>
        /\ yin[1].status = "RuntimeError"
        /\ yin[1].diff = <<>> /\ yin[1].cumdiff = <<>> /\ yin[1].out = <<>>

\* C6 witness: forward has run on a module built with lagMax > windowSize.
C6_Witness ==
    /\ TooLongLag /\ yin # <<>>
    /\ yin[1].status = "RuntimeError"
    /\ Len(yin[1].frames) >= 2

ValidConfig ==
    /\ yingram # <<>>
    /\ 0 < yingram[1].lmin
    /\ yingram[1].lmin < yingram[1].lmax
    /\ yingram[1].lmax <= yingram[1].windows

\* C8: for every configuration with 0 < lagMin < lagMax <= windowSize, at
\* every grid point both floor(L) and ceil(L) lie in [0, lagMax).
C8_IndicesInRange ==
    (ValidConfig /\ yin # <<>>) =>
        \A g \in 1..Len(yin[1].lags) :
            /\ 0 <= Floor(yin[1].lags[g])
            /\ Ceil(yin[1].lags[g]) < yingram[1].lmax

\* sum_{j=1}^{W-tau} (x[j] - x[j+tau])^2
SquaredDifference(x, tau) ==
    Sum(Tuple([j \in 1..(Len(x) - tau) |->
                  (x[j] - x[j + tau]) * (x[j] - x[j + tau])]))

\* C9: for every frame and every lag tau in [0, lagMax) the difference
\* function is the sum of squared differences between the frame and its
\* copy shifted by tau; diff[0] = 0 and diff[tau] >= 0.
C9_DiffIsSquaredDifference ==
    (ValidConfig /\ yin # <<>>) =>
        \A f \in 1..Len(yin[1].diff) :
            /\ Len(yin[1].diff[f]) = yingram[1].lmax
            /\ yin[1].diff[f][1] = 0
            /\ \A tau \in 0..(yingram[1].lmax - 1) :
                  /\ yin[1].diff[f][tau + 1] = SquaredDifference(yin[1].frames[f], tau)
                  /\ yin[1].diff[f][tau + 1] >= 0

====
